---- MODULE Spec2Model ----
(***************************************************************************)
(* Monte Carlo startup simulator (src/analysis.py, the superset of         *)
(* src/app3.py and src/wargame-mode.py): run_simulation and the strategic  *)
(* scoring that follows it.                                                 *)
(*                                                                         *)
(* Python floats are modelled as exact rationals <<n, d>> in lowest terms  *)
(* with d > 0.  The random draws np.random.rand() and np.random.choice     *)
(* are nondeterministic choices over the outcomes the draw can produce.    *)
(***************************************************************************)
EXTENDS Integers, Sequences, FiniteSets, TLC

\* ------------------------------------------------------------------------
\* Bounds of the model
\* ------------------------------------------------------------------------
\* longest horizon (total_months) of a run without competitors and events
MaxMonths == 3
\* largest num_simulations
MaxTrials == 2
\* longest horizon of a run with competitors or strategic events
MaxWargameMonths == 2
\* largest num_simulations * total_months of a run that draws at random
MaxDraws == 4
\* largest number of trial results handed to the scoring
MaxScored == 3

\* ------------------------------------------------------------------------
\* Exact rational arithmetic (the model of float arithmetic)
\* ------------------------------------------------------------------------
Abs(x) == IF x < 0 THEN -x ELSE x

RECURSIVE GCD(_, _)
GCD(a, b) == IF b = 0 THEN a ELSE GCD(b, a % b)

\* n/d in lowest terms, d > 0 (d # 0 required)
Norm(n, d) ==
    LET g == GCD(Abs(n), Abs(d))
        s == IF d < 0 THEN -1 ELSE 1
    IN  <<s * (n \div g), s * (d \div g)>>

Num(q) == q[1]
Den(q) == q[2]
Q(n) == <<n, 1>>
Zero == Q(0)
One == Q(1)

RAdd(a, b) ==
    LET g == GCD(Den(a), Den(b))
    IN  Norm(Num(a) * (Den(b) \div g) + Num(b) * (Den(a) \div g),
             (Den(a) \div g) * Den(b))

RNeg(a) == <<-Num(a), Den(a)>>
RSub(a, b) == RAdd(a, RNeg(b))

\* cross-reduced so that no intermediate exceeds the result
RMul(a, b) ==
    LET g1 == GCD(Abs(Num(a)), Den(b))
        g2 == GCD(Abs(Num(b)), Den(a))
    IN  Norm((Num(a) \div g1) * (Num(b) \div g2),
             (Den(a) \div g2) * (Den(b) \div g1))

IsZero(a) == Num(a) = 0

\* a / b, b # 0
RDiv(a, b) ==
    RMul(a, IF Num(b) < 0 THEN <<-Den(b), -Num(b)>> ELSE <<Den(b), Num(b)>>)

RSign(a) == IF Num(a) < 0 THEN -1 ELSE IF Num(a) = 0 THEN 0 ELSE 1
RLt(a, b) == RSign(RSub(a, b)) < 0
RLe(a, b) == RSign(RSub(a, b)) <= 0
RMax(a, b) == IF RLt(a, b) THEN b ELSE a

\* floor of a rational (Python int() of a non-negative float)
RFloor(a) == Num(a) \div Den(a)

\* x percent as a fraction: x / 100
Pct(x) == Norm(x, 100)

RECURSIVE RSum(_)
RSum(s) ==
    IF s = <<>> THEN Zero
    ELSE LET rest == RSum(Tail(s)) IN RAdd(Head(s), rest)

\* ------------------------------------------------------------------------
\* Parameters (the sidebar values run_simulation reads)
\* ------------------------------------------------------------------------
Comp(g, a) == [growth |-> g, aggressiveness |-> a]

Params(c, b, g, r, s, e, w, cs, m, n) ==
    [cash_start |-> c, burn_rate |-> b, growth_rate_init |-> g,
     retention_init |-> r, market_shock_prob |-> s, event_chance |-> e,
     wargame_mode |-> w, competitors |-> cs, total_months |-> m,
     num_simulations |-> n]

\* runs without competitors and without strategic events
PlainRuns ==
    { Params(c, b, g, r, s, 0, w, <<>>, m, n) :
        c \in {4000, 20000}, b \in {0, 5000}, g \in {-100, 0, 20},
        r \in {0, 80, 100}, s \in {0, 10, 100}, w \in BOOLEAN,
        m \in 1..MaxMonths, n \in 1..MaxTrials }

\* The competitor lists and the rates of the wargame runs are chosen so that
\* the exact quotients comp_clients[i] / (clients + sum(comp_clients)) stay
\* within TLC's 32-bit integers over the horizon (TLC stops on an overflow).
CompetitorLists ==
    { <<Comp(0, 100)>>, <<Comp(-50, 75)>>,
      <<Comp(0, 100), Comp(100, 50)>>, <<Comp(-50, 100), Comp(-50, 25)>> }

WargameRates == { <<100, 100>>, <<50, 50>>, <<100, 50>>, <<40, 60>>, <<0, 0>> }

\* wargame runs: one to three competitors, no strategic events
WargameRuns ==
    { Params(20000, 5000, gr[1], gr[2], s, 0, TRUE, cs, m, n) :
        gr \in WargameRates, s \in {0, 100}, cs \in CompetitorLists,
        m \in 1..MaxWargameMonths, n \in 1..MaxTrials }
    \cup
    { Params(20000, 5000, gr[1], gr[2], 0, 0, TRUE, cs, m, n) :
        gr \in { <<100, 50>>, <<0, 0>> },
        cs \in { <<Comp(0, 100), Comp(100, 50), Comp(100, 50)>>,
                 <<Comp(-100, 0)>> },
        m \in 1..MaxWargameMonths, n \in 1..MaxTrials }

\* runs with strategic events, without competitor, with a competitor that
\* takes no market share and (one month shorter) with one that does
EventRuns ==
    { Params(c, 5000, 20, 80, s, e, cs # <<>>, cs, m, n) :
        c \in {3000, 20000}, s \in {0, 10}, e \in {20, 100},
        cs \in {<<>>, <<Comp(100, 0)>>},
        m \in 1..MaxWargameMonths, n \in 1..MaxTrials }
    \cup
    { Params(20000, 5000, 20, 80, 0, e, TRUE, <<Comp(0, 50)>>, m, n) :
        e \in {20, 100},
        m \in 1..(MaxWargameMonths - 1), n \in 1..MaxTrials }

\* number of months a run simulates at most, when it draws at random
Draws(p) ==
    IF p.market_shock_prob \in {0, 100} /\ p.event_chance = 0
    THEN 0 ELSE p.total_months * p.num_simulations

\* the parameter ranges of spec section 6
ValidParams(p) ==
    /\ p.burn_rate >= 0
    /\ p.retention_init \in 0..100
    /\ p.market_shock_prob \in 0..100
    /\ p.event_chance \in 0..100
    /\ p.total_months >= 1
    /\ p.num_simulations >= 1
    /\ \A i \in 1..Len(p.competitors) :
          p.competitors[i].aggressiveness \in 0..100

ValidRuns ==
    { p \in PlainRuns \cup WargameRuns \cup EventRuns : Draws(p) <= MaxDraws }

\* ------------------------------------------------------------------------
\* State
\* ------------------------------------------------------------------------
VARIABLES
    params,            \* the parameter values of this run
    pc,                \* "trial" | "month" | "break" | "done" | "raised"
    error,             \* "none" or the exception that ended the run
    results,           \* results
    event_counts,      \* event_counts: event kind -> count, keys added lazily
    cash, clients, growth_rate, retention, comp_clients, history,
    effective_growth,  \* effective_growth of the last simulated month
    score              \* the strategic scoring, <<>> before it is computed

vars == <<params, pc, error, results, event_counts, cash, clients,
          growth_rate, retention, comp_clients, history, effective_growth,
          score>>

trial == <<cash, clients, growth_rate, retention, comp_clients, history,
           effective_growth>>

None == "none"
EventKinds == {"Funding", "Partnership", "CriticalBug", "ReputationCrisis"}

InitWith(P) ==
    /\ params \in P
    /\ pc = "trial"
    /\ error = "none"
    /\ results = <<>>
    /\ event_counts = <<>>
    /\ cash = Zero
    /\ clients = Zero
    /\ growth_rate = Zero
    /\ retention = Zero
    /\ comp_clients = <<>>
    /\ history = <<>>
    /\ effective_growth = Zero
    /\ score = <<>>

Init == InitWith(ValidRuns)

\* ------------------------------------------------------------------------
\* run_simulation
\* ------------------------------------------------------------------------
\* np.random.rand() < p / 100, rand() uniform in [0, 1)
Draw(p) == { b \in BOOLEAN : (b => p > 0) /\ (~b => p < 100) }

\* mutant: growth_rate and retention initialised once, outside the trial loop
StartTrial_RatesCarryOver ==
    /\ pc = "trial"
    /\ Len(results) < params.num_simulations
    /\ cash' = Q(params.cash_start)
    /\ clients' = Q(100)
    /\ growth_rate' = IF results = <<>> THEN Q(params.growth_rate_init)
                                        ELSE growth_rate
    /\ retention' = IF results = <<>> THEN Q(params.retention_init)
                                      ELSE retention
    /\ comp_clients' = [i \in 1..Len(params.competitors) |-> Q(100)]
    /\ history' = <<>>
    /\ pc' = "month"
    /\ UNCHANGED <<params, error, results, event_counts, effective_growth, score>>

\* for _ in range(num_simulations): the trial's initial state
StartTrial ==
    /\ pc = "trial"
    /\ Len(results) < params.num_simulations
    /\ cash' = Q(params.cash_start)
    /\ clients' = Q(100)
    /\ growth_rate' = Q(params.growth_rate_init)
    /\ retention' = Q(params.retention_init)
    /\ comp_clients' = [i \in 1..Len(params.competitors) |-> Q(100)]
    /\ history' = <<>>
    /\ pc' = "month"
    /\ UNCHANGED <<params, error, results, event_counts, effective_growth, score>>

\* mutant: the sum of the denominator is taken before competitor i's own
\* count is compounded
RECURSIVE CompetitorLoop_StaleSum(_, _, _, _, _)
CompetitorLoop_StaleSum(i, competitors, own, cc, eg) ==
    IF i > Len(competitors)
    THEN [comp_clients |-> cc, effective_growth |-> eg, raised |-> FALSE]
    ELSE LET comp == competitors[i]
             cc1 == [cc EXCEPT ![i] = RMul(cc[i], RAdd(One, Pct(comp.growth)))]
             denom == RAdd(own, RSum(cc))
         IN  IF IsZero(denom)
             THEN [comp_clients |-> cc1, effective_growth |-> eg, raised |-> TRUE]
             ELSE LET market_share_loss ==
                          RMul(Pct(comp.aggressiveness), RDiv(cc1[i], denom))
                  IN  CompetitorLoop_StaleSum(i + 1, competitors, own, cc1,
                          RMul(eg, RMax(Zero, RSub(One, market_share_loss))))

\* for i, comp in enumerate(competitors), from index i on: the competitor
\* counts and effective_growth after the pass, or raised = TRUE where the
\* division comp_clients[i] / (clients + sum(comp_clients)) is by zero
RECURSIVE CompetitorLoop(_, _, _, _, _)
CompetitorLoop(i, competitors, own, cc, eg) ==
    IF i > Len(competitors)
    THEN [comp_clients |-> cc, effective_growth |-> eg, raised |-> FALSE]
    ELSE LET comp == competitors[i]
             cc1 == [cc EXCEPT ![i] = RMul(cc[i], RAdd(One, Pct(comp.growth)))]
             denom == RAdd(own, RSum(cc1))
         IN  IF IsZero(denom)
             THEN [comp_clients |-> cc1, effective_growth |-> eg, raised |-> TRUE]
             ELSE LET market_share_loss ==
                          RMul(Pct(comp.aggressiveness), RDiv(cc1[i], denom))
                  IN  CompetitorLoop(i + 1, competitors, own, cc1,
                          RMul(eg, RMax(Zero, RSub(One, market_share_loss))))

\* growth_rate / 100 * (0.5 if shock else 1.0)
BaseGrowth(g, shock) == RMul(RDiv(g, Q(100)), IF shock THEN <<1, 2>> ELSE One)

\* the four-way branch on event_type
EventCash(c, e) == IF e = "Funding" THEN RAdd(c, Q(20000)) ELSE c
EventGrowth(g, e) ==
    IF e = "Partnership" THEN RMul(g, <<6, 5>>)
    ELSE IF e = "ReputationCrisis" THEN RMul(g, <<7, 10>>)
    ELSE g
EventRetention(r, e) == IF e = "CriticalBug" THEN RMul(r, <<9, 10>>) ELSE r

\* mutant: event_counts[event_type] = 1, an earlier count is overwritten
Tally_Overwrite(ec, e) ==
    IF e = None THEN ec
    ELSE [k \in DOMAIN ec \cup {e} |-> IF k = e THEN 1 ELSE ec[k]]

\* event_counts[event_type] = event_counts.get(event_type, 0) + 1
Tally(ec, e) ==
    IF e = None THEN ec
    ELSE [k \in DOMAIN ec \cup {e} |->
            IF k = e THEN (IF e \in DOMAIN ec THEN ec[e] ELSE 0) + 1 ELSE ec[k]]

\* mutant: retention applied to the client base after growth
NewClients_Netted(cl, r, eg) == RMul(RAdd(cl, RMul(cl, eg)), RDiv(r, Q(100)))

\* clients * (retention / 100) + clients * effective_growth
NewClients(cl, r, eg) == RAdd(RMul(cl, RDiv(r, Q(100))), RMul(cl, eg))

\* cash + clients * 10 - burn_rate
NewCash(c, cl, burn) == RAdd(c, RSub(RMul(cl, Q(10)), Q(burn)))

MonthRecord(m, c, cl, shock, e, cc) ==
    [mois |-> m, cash |-> c, clients |-> cl, shock |-> shock, event |-> e,
     competitors |-> cc]

\* mutant: the early stop is missing
AfterMonth_NoBreak(c) == "month"

\* if cash < 0: break
AfterMonth(c) == IF RLt(c, Zero) THEN "break" ELSE "month"

\* mutant: the event branch placed before effective_growth is computed
MonthStep_EventFirst(p, c, cl, g, r, cc, shock, event_type) ==
    LET g1 == EventGrowth(g, event_type)
        loop == IF p.wargame_mode
                THEN CompetitorLoop(1, p.competitors, cl, cc,
                                    BaseGrowth(g1, shock))
                ELSE [comp_clients |-> cc,
                      effective_growth |-> BaseGrowth(g1, shock),
                      raised |-> FALSE]
        r1 == EventRetention(r, event_type)
        cl1 == NewClients(cl, r1, loop.effective_growth)
        c1 == NewCash(EventCash(c, event_type), cl1, p.burn_rate)
    IN  IF loop.raised
        THEN [raised |-> TRUE, comp_clients |-> loop.comp_clients]
        ELSE [raised |-> FALSE, comp_clients |-> loop.comp_clients,
              effective_growth |-> loop.effective_growth,
              growth_rate |-> g1,
              retention |-> r1, clients |-> cl1, cash |-> c1]

\* the body of for month in range(total_months), up to history.append, for
\* the drawn shock and event_type: the values of the trial's variables
\* after it, or raised = TRUE where the competitor loop divides by zero
MonthStep(p, c, cl, g, r, cc, shock, event_type) ==
    LET loop == IF p.wargame_mode
                THEN CompetitorLoop(1, p.competitors, cl, cc,
                                    BaseGrowth(g, shock))
                ELSE [comp_clients |-> cc,
                      effective_growth |-> BaseGrowth(g, shock),
                      raised |-> FALSE]
        r1 == EventRetention(r, event_type)
        cl1 == NewClients(cl, r1, loop.effective_growth)
        c1 == NewCash(EventCash(c, event_type), cl1, p.burn_rate)
    IN  IF loop.raised
        THEN [raised |-> TRUE, comp_clients |-> loop.comp_clients]
        ELSE [raised |-> FALSE, comp_clients |-> loop.comp_clients,
              effective_growth |-> loop.effective_growth,
              growth_rate |-> EventGrowth(g, event_type),
              retention |-> r1, clients |-> cl1, cash |-> c1]

\* one iteration of for month in range(total_months)
Month ==
    /\ pc = "month"
    /\ Len(history) < params.total_months
    /\ \E shock \in Draw(params.market_shock_prob),
          event_triggered \in Draw(params.event_chance) :
       \E event_type \in IF event_triggered THEN EventKinds ELSE {None} :
          \E new \in {MonthStep(params, cash, clients, growth_rate, retention,
                               comp_clients, shock, event_type)} :
              IF new.raised
              THEN /\ pc' = "raised"
                   /\ error' = "ZeroDivisionError"
                   /\ comp_clients' = new.comp_clients
                   /\ UNCHANGED <<params, results, event_counts, cash, clients,
                                  growth_rate, retention, history,
                                  effective_growth, score>>
              ELSE /\ event_counts' = Tally(event_counts, event_type)
                   /\ growth_rate' = new.growth_rate
                   /\ retention' = new.retention
                   /\ comp_clients' = new.comp_clients
                   /\ effective_growth' = new.effective_growth
                   /\ clients' = new.clients
                   /\ cash' = new.cash
                   /\ history' = Append(history,
                          MonthRecord(Len(history) + 1, new.cash, new.clients,
                                      shock, event_type, new.comp_clients))
                   /\ pc' = AfterMonth(new.cash)
                   /\ UNCHANGED <<params, error, results, score>>

\* mutant: success = final_cash >= 0
Success_GreaterEqual(final_cash) == RLe(Zero, final_cash)

\* success = final_cash > 0
Success(final_cash) == RLt(Zero, final_cash)

TrialResult(c, h) ==
    [succes |-> Success(c), cash_final |-> c, duree |-> Len(h), data |-> h]

\* after the month loop (range exhausted or break): results.append(...)
EndTrial ==
    /\ \/ pc = "break"
       \/ pc = "month" /\ Len(history) >= params.total_months
    /\ results' = Append(results, TrialResult(cash, history))
    /\ pc' = "trial"
    /\ UNCHANGED <<params, error, event_counts, trial, score>>

\* return results, event_counts
Return ==
    /\ pc = "trial"
    /\ Len(results) >= params.num_simulations
    /\ pc' = "done"
    /\ UNCHANGED <<params, error, results, event_counts, trial, score>>

Next == StartTrial \/ Month \/ EndTrial \/ Return

Spec == Init /\ [][Next]_vars

\* ------------------------------------------------------------------------
\* C3: every trial's history is the months 1..d, d the first month with
\* cash < 0 or the horizon: duration = history length, 1 <= d <= horizon,
\* every record before the last has cash >= 0, and a trial shorter than the
\* horizon ends on cash < 0.
\* ------------------------------------------------------------------------
ConsecutiveMonths(h) == \A m \in 1..Len(h) : h[m].mois = m
NonNegativeBeforeLast(h) == \A m \in 1..(Len(h) - 1) : ~RLt(h[m].cash, Zero)

C3_HistoryShape ==
    /\ ConsecutiveMonths(history)
    /\ NonNegativeBeforeLast(history)
    /\ \A k \in 1..Len(results) :
          LET h == results[k].data
              d == results[k].duree
          IN  /\ d = Len(h)
              /\ 1 <= d /\ d <= params.total_months
              /\ ConsecutiveMonths(h)
              /\ NonNegativeBeforeLast(h)
              /\ d < params.total_months => RLt(h[d].cash, Zero)

\* a trial stopped early in its second month, one month before the horizon
C3_Witness ==
    \E k \in 1..Len(results) :
        /\ results[k].duree = 2
        /\ params.total_months = 3
        /\ RLt(results[k].data[2].cash, Zero)

\* ------------------------------------------------------------------------
\* C4: a trial's success flag is true iff the cash of its last recorded
\* month is > 0; final cash exactly 0 is a failure.
\* ------------------------------------------------------------------------
C4_SuccessIffPositive ==
    /\ \A k \in 1..Len(results) :
          LET t == results[k]
          IN  t.duree >= 1 =>
                /\ t.cash_final = t.data[t.duree].cash
                /\ t.succes <=> (Num(t.data[t.duree].cash) > 0)
    /\ (Len(history) >= 1 /\ history[Len(history)].cash = Zero) => pc # "break"

\* a trial whose final cash is exactly 0 and which counts as a failure
C4_Witness ==
    \E k \in 1..Len(results) :
        /\ results[k].cash_final = Zero
        /\ ~results[k].succes

\* ------------------------------------------------------------------------
\* C5: without shocks, events and competitors every trial follows
\* clients[m] = clients[m-1] * (retention/100 + growth_rate/100),
\* cash[m] = cash[m-1] + 10 * clients[m] - burn_rate from clients[0] = 100,
\* cash[0] = initial cash; for growth 20, retention 80, cash 20000 and burn
\* 5000 the first three months are clients 100, 100, 100 and cash 16000,
\* 12000, 8000.
\* ------------------------------------------------------------------------
Deterministic(p) ==
    p.market_shock_prob = 0 /\ p.event_chance = 0 /\ p.competitors = <<>>

Recurrence(h, p) ==
    \A m \in 1..Len(h) :
        LET cl0 == IF m = 1 THEN Q(100) ELSE h[m - 1].clients
            c0 == IF m = 1 THEN Q(p.cash_start) ELSE h[m - 1].cash
        IN  /\ h[m].clients =
                 RMul(cl0, RAdd(Pct(p.retention_init), Pct(p.growth_rate_init)))
            /\ h[m].cash =
                 RSub(RAdd(c0, RMul(Q(10), h[m].clients)), Q(p.burn_rate))

HandTrace(h) ==
    \A m \in 1..Len(h) :
        m <= 3 => h[m].clients = Q(100) /\ h[m].cash = Q(20000 - 4000 * m)

IsHandTraceRun(p) ==
    /\ p.growth_rate_init = 20 /\ p.retention_init = 80
    /\ p.cash_start = 20000 /\ p.burn_rate = 5000

C5_DeterministicTrajectory ==
    Deterministic(params) =>
        /\ Recurrence(history, params)
        /\ \A k \in 1..Len(results) : Recurrence(results[k].data, params)
        /\ \A j, k \in 1..Len(results) : results[j] = results[k]
        /\ IsHandTraceRun(params) =>
              /\ HandTrace(history)
              /\ \A k \in 1..Len(results) : HandTrace(results[k].data)

\* the third month of the second trial of the hand-computed run
C5_Witness ==
    /\ Deterministic(params) /\ IsHandTraceRun(params)
    /\ Len(results) = 1
    /\ Len(history) = 3
    /\ history[3].cash = Q(8000)

\* ------------------------------------------------------------------------
\* C7: when run returns, the values of event_tally sum to total_events, the
\* number of month records of all trials whose event is not none (kind by
\* kind), and total_events <= N * horizon_months.
\* ------------------------------------------------------------------------
RECURSIVE SumValues(_, _)
SumValues(f, S) ==
    IF S = {} THEN 0
    ELSE LET x == CHOOSE y \in S : TRUE
         IN  f[x] + SumValues(f, S \ {x})

\* total_events = sum(event_counts.values())
TotalEvents(ec) == SumValues(ec, DOMAIN ec)

RecordsWith(h, E) == Cardinality({ m \in 1..Len(h) : h[m].event \in E })

RECURSIVE RecordsOfRun(_, _)
RecordsOfRun(rs, E) ==
    IF rs = <<>> THEN 0
    ELSE RecordsWith(Head(rs).data, E) + RecordsOfRun(Tail(rs), E)

C7_TallyMatchesRecords ==
    pc = "done" =>
        /\ TotalEvents(event_counts) = RecordsOfRun(results, EventKinds)
        /\ \A e \in EventKinds :
              (IF e \in DOMAIN event_counts THEN event_counts[e] ELSE 0)
                 = RecordsOfRun(results, {e})
        /\ TotalEvents(event_counts)
              <= params.num_simulations * params.total_months

\* a finished run of two trials that both triggered the same kind of event
C7_Witness ==
    /\ pc = "done"
    /\ Len(results) = 2
    /\ \E e \in EventKinds :
          /\ RecordsWith(results[1].data, {e}) >= 1
          /\ RecordsWith(results[2].data, {e}) >= 1
          /\ event_counts[e] >= 2

\* ------------------------------------------------------------------------
\* C9: at the start of month m of a trial, growth_rate is the initial rate
\* times 1.2 per Partnership and 0.7 per ReputationCrisis, and retention the
\* initial retention times 0.9 per CriticalBug, of months 1..m-1 of that
\* trial only; a shock changes neither, nothing carries over from an earlier
\* trial, and each trial starts from the initial cash and 100 clients.
\* ------------------------------------------------------------------------
RECURSIVE Pow(_, _)
Pow(q, n) == IF n = 0 THEN One ELSE RMul(q, Pow(q, n - 1))

C9_PersistentRates ==
    pc = "month" =>
        /\ growth_rate =
              RMul(Q(params.growth_rate_init),
                   RMul(Pow(<<6, 5>>, RecordsWith(history, {"Partnership"})),
                        Pow(<<7, 10>>, RecordsWith(history, {"ReputationCrisis"}))))
        /\ retention =
              RMul(Q(params.retention_init),
                   Pow(<<9, 10>>, RecordsWith(history, {"CriticalBug"})))
        /\ history = <<>> =>
              /\ cash = Q(params.cash_start)
              /\ clients = Q(100)
              /\ \A i \in 1..Len(params.competitors) : comp_clients[i] = Q(100)
              /\ Len(comp_clients) = Len(params.competitors)

\* the second trial after a month with a shock and no event, where the
\* first trial had a Partnership and a CriticalBug
C9_Witness ==
    /\ pc = "month"
    /\ Len(results) = 1
    /\ RecordsWith(results[1].data, {"Partnership"}) >= 1
    /\ RecordsWith(results[1].data, {"CriticalBug"}) >= 1
    /\ Len(history) = 1
    /\ history[1].shock
    /\ history[1].event = None

\* ------------------------------------------------------------------------
\* C8: competitors are processed in list order; competitor i's count is
\* compounded by (1 + growth_i/100) and its market_share_loss is
\* (aggressiveness_i/100) * count_i / (own clients before this month's
\* update + compounded counts of competitors 1..i + not yet compounded
\* counts of competitors i+1..k); effective_growth is multiplied by
\* max(0, 1 - market_share_loss) for each competitor in turn.
\* ------------------------------------------------------------------------
Compounded(cc, competitors) ==
    [j \in 1..Len(cc) |-> RMul(cc[j], RAdd(One, Pct(competitors[j].growth)))]

\* the counts as competitor i sees them: 1..i compounded, i+1..k not yet
MixedCounts(i, cc, competitors) ==
    [j \in 1..Len(cc) |->
        IF j <= i THEN Compounded(cc, competitors)[j] ELSE cc[j]]

LossFactor(i, own, cc, competitors, counts) ==
    RMax(Zero,
         RSub(One,
              RMul(Pct(competitors[i].aggressiveness),
                   RDiv(Compounded(cc, competitors)[i],
                        RAdd(own, RSum(counts))))))

RECURSIVE OrderedFactors(_, _, _, _)
OrderedFactors(i, own, cc, competitors) ==
    IF i = 0 THEN One
    ELSE RMul(OrderedFactors(i - 1, own, cc, competitors),
              LossFactor(i, own, cc, competitors,
                         MixedCounts(i, cc, competitors)))

\* a step of Month that appended a record
MonthAppended == pc = "month" /\ Len(history') = Len(history) + 1

C8_CompetitorOrder ==
    [][(MonthAppended /\ params.wargame_mode /\ params.competitors # <<>>) =>
          /\ comp_clients' = Compounded(comp_clients, params.competitors)
          /\ history'[Len(history')].competitors = comp_clients'
          /\ effective_growth' =
                RMul(BaseGrowth(growth_rate, history'[Len(history')].shock),
                     OrderedFactors(Len(params.competitors), clients,
                                    comp_clients, params.competitors))]_vars

\* what effective_growth would be with every count compounded before any
\* loss is computed
RECURSIVE SymmetricFactors(_, _, _, _)
SymmetricFactors(i, own, cc, competitors) ==
    IF i = 0 THEN One
    ELSE RMul(SymmetricFactors(i - 1, own, cc, competitors),
              LossFactor(i, own, cc, competitors,
                         Compounded(cc, competitors)))

\* the second month of a run with two competitors, where the order of the
\* list shows in effective_growth
C8_Witness ==
    /\ Len(params.competitors) = 2
    /\ params.event_chance = 0
    /\ pc = "month"
    /\ Len(history) = 2
    /\ effective_growth # Zero
    /\ effective_growth #
          RMul(BaseGrowth(growth_rate, history[2].shock),
               SymmetricFactors(2, history[1].clients, history[1].competitors,
                                params.competitors))

\* ------------------------------------------------------------------------
\* C10: within a month the event is applied after effective_growth is
\* computed and before the client update, the cash update and the
\* cash < 0 test: Funding adds 20000 to the month's recorded cash,
\* CriticalBug lowers the retention of the month's client update, and
\* Partnership or ReputationCrisis leave the month's clients as without
\* an event and change growth_rate for the months after.
\* ------------------------------------------------------------------------
C10_EventOrder ==
    [][MonthAppended =>
          LET rec == history'[Len(history')]
              e == rec.event
              quiet == MonthStep(params, cash, clients, growth_rate, retention,
                                 comp_clients, rec.shock, None)
              used == IF e = "CriticalBug" THEN RMul(retention, <<9, 10>>)
                                           ELSE retention
          IN  /\ rec.cash = cash' /\ rec.clients = clients'
              /\ effective_growth' = quiet.effective_growth
              /\ clients' = RMul(clients, RAdd(RDiv(used, Q(100)),
                                               effective_growth'))
              /\ cash' = RAdd(RAdd(cash, IF e = "Funding" THEN Q(20000) ELSE Zero),
                              RSub(RMul(Q(10), clients'), Q(params.burn_rate)))
              /\ (pc' = "break") <=> (Num(cash') < 0)
              /\ e \in {"Partnership", "ReputationCrisis"} =>
                    /\ clients' = quiet.clients
                    /\ growth_rate' =
                          RMul(growth_rate, IF e = "Partnership" THEN <<6, 5>>
                                                                 ELSE <<7, 10>>)
              /\ e \notin {"Partnership", "ReputationCrisis"} =>
                    growth_rate' = growth_rate]_vars

\* a month 1 that would have ended below zero without its Funding event,
\* and the month 2 simulated after it
C10_Witness ==
    /\ Len(history) = 2
    /\ history[1].event = "Funding"
    /\ RLt(history[1].cash, Q(20000))
    /\ ~RLt(history[1].cash, Zero)

\* ------------------------------------------------------------------------
\* C2: for parameters inside the documented ranges the run completes
\* without an arithmetic failure: the market-share denominator
\* own_clients + sum(competitor_clients) is never zero.
\* ------------------------------------------------------------------------
C2_NoArithmeticFailure ==
    ValidParams(params) => (error = "none" /\ pc # "raised")

\* ------------------------------------------------------------------------
\* C1: a run with an invalid parameter simulates no month and returns no
\* trial result and no event tally: it ends in InvalidParameter.
\* ------------------------------------------------------------------------
\* the default run with one parameter outside its documented range
InvalidRuns ==
    { p \in [cash_start : {20000}, burn_rate : {-500, 5000},
             growth_rate_init : {20}, retention_init : {-10, 80, 150},
             market_shock_prob : {-5, 0, 150}, event_chance : {-5, 0, 150},
             wargame_mode : BOOLEAN,
             competitors : {<<>>, <<Comp(0, 150)>>, <<Comp(0, -10)>>},
             total_months : 0..MaxWargameMonths,
             num_simulations : 0..MaxTrials] :
        /\ p.wargame_mode = (p.competitors # <<>>)
        /\ Cardinality({ f \in {"b", "r", "s", "e", "c", "m", "n"} :
            \/ f = "b" /\ p.burn_rate < 0
            \/ f = "r" /\ p.retention_init \notin 0..100
            \/ f = "s" /\ p.market_shock_prob \notin 0..100
            \/ f = "e" /\ p.event_chance \notin 0..100
            \/ f = "c" /\ p.competitors # <<>>
            \/ f = "m" /\ p.total_months < 1
            \/ f = "n" /\ p.num_simulations < 1 }) = 1 }

Unvalidated == { p \in ValidRuns \cup InvalidRuns : Draws(p) <= MaxDraws }

SpecUnvalidated == InitWith(Unvalidated) /\ [][Next]_vars

C1_InvalidRejected ==
    ~ValidParams(params) =>
        /\ history = <<>>
        /\ results = <<>>
        /\ event_counts = <<>>
        /\ pc # "done"

\* ------------------------------------------------------------------------
\* Strategic scoring (the statements after run_simulation)
\* ------------------------------------------------------------------------
Min(a, b) == IF a < b THEN a ELSE b
Max(a, b) == IF a < b THEN b ELSE a

\* Python round(x): to the nearest integer, a tie to the even one
Round(x) ==
    LET f == RFloor(x)
        twice == RSub(RMul(Q(2), x), Q(2 * f + 1))
    IN  IF Num(twice) < 0 THEN f
        ELSE IF Num(twice) > 0 THEN f + 1
        ELSE IF f % 2 = 0 THEN f ELSE f + 1

RECURSIVE ISqrtFrom(_, _)
ISqrtFrom(k, n) == IF (k + 1) * (k + 1) > n THEN k ELSE ISqrtFrom(k + 1, n)
\* floor of the square root of n >= 0
ISqrt(n) == ISqrtFrom(0, n)

Column(sim_data, field) == [i \in 1..Len(sim_data) |-> sim_data[i][field]]

\* np.mean
Mean(xs) == RDiv(RSum(xs), Q(Len(xs)))

\* the square of np.std (the population variance)
Variance(xs) ==
    LET mu == Mean(xs)
    IN  Mean([i \in 1..Len(xs) |->
                LET dev == RSub(xs[i], mu) IN RMul(dev, dev)])

\* int(np.std(xs) / 10000): the floor of the root of the variance of
\* xs / 10000
IntStdBy10000(xs) ==
    LET variance == Variance([i \in 1..Len(xs) |-> RDiv(xs[i], Q(10000))])
    IN  ISqrt(RFloor(variance))

\* np.mean([s["succes"] for s in sim_data]) * 100
SuccessRate(sim_data) ==
    RMul(Mean([i \in 1..Len(sim_data) |->
                 IF sim_data[i].succes THEN One ELSE Zero]), Q(100))

\* np.mean([s["duree"] for s in sim_data])
AverageLifetime(sim_data) ==
    Mean([i \in 1..Len(sim_data) |-> Q(sim_data[i].duree)])

\* min(5, round(success_rate / 20))
RobustScore(success_rate) == Min(5, Round(RDiv(success_rate, Q(20))))

\* min(5, round(average_lifetime / (total_months / 5)))
ResilienceScore(average_lifetime, total_months) ==
    Min(5, Round(RDiv(average_lifetime, RDiv(Q(total_months), Q(5)))))

\* 5 - min(5, int(std_dev_cash / 10000))
StabilityScore(cash_finals) == 5 - Min(5, IntStdBy10000(cash_finals))

\* mutant: 5 - round(total_events / num_simulations * 5), the floor at 0 is
\* missing
VulnerabilityScore_NoFloor(total_events, num_simulations) ==
    5 - Round(RMul(RDiv(Q(total_events), Q(num_simulations)), Q(5)))

\* max(0, 5 - round(total_events / num_simulations * 5))
VulnerabilityScore(total_events, num_simulations) ==
    Max(0, 5 - Round(RMul(RDiv(Q(total_events), Q(num_simulations)), Q(5))))

Scoring(sim_data, ec, total_months, num_simulations) ==
    LET success_rate == SuccessRate(sim_data)
        average_lifetime == AverageLifetime(sim_data)
        total_events == TotalEvents(ec)
        robust == RobustScore(success_rate)
        resilience == ResilienceScore(average_lifetime, total_months)
        stability == StabilityScore(Column(sim_data, "cash_final"))
        vulnerability == VulnerabilityScore(total_events, num_simulations)
    IN  [success_rate |-> success_rate,
         average_lifetime |-> average_lifetime,
         total_events |-> total_events,
         robust_score |-> robust,
         resilience_score |-> resilience,
         stability_score |-> stability,
         vulnerability_score |-> vulnerability,
         total_score |-> robust + resilience + stability + vulnerability]

\* the statements of the scoring, applied to what run_simulation returned
Score ==
    /\ pc = "done"
    /\ score' = Scoring(results, event_counts, params.total_months,
                        params.num_simulations)
    /\ pc' = "scored"
    /\ UNCHANGED <<params, error, results, event_counts, trial>>

\* The scoring reads succes, duree and cash_final of the trials and the
\* tally: its inputs are drawn from the trial results of a horizon m
\* (1 <= duree <= m, succes = cash_final > 0) and the tallies of at most one
\* event per simulated month.
ScoredTrials(m) ==
    { [succes |-> Success(Q(c)), cash_final |-> Q(c), duree |-> d,
       data |-> <<>>] : c \in {-4000, 0, 100000}, d \in {1, m} }

ScoredTallies ==
    UNION { [S -> 1..3] : S \in SUBSET {"Funding", "CriticalBug"} }

ScoreInit ==
    /\ params \in { Params(20000, 5000, 20, 80, 10, 20, FALSE, <<>>, m, n) :
                      m \in 1..MaxMonths, n \in 1..MaxScored }
    /\ pc = "done"
    /\ error = "none"
    /\ results \in [1..params.num_simulations -> ScoredTrials(params.total_months)]
    /\ event_counts \in
          { ec \in ScoredTallies :
              TotalEvents(ec) <= params.num_simulations * params.total_months }
    /\ cash = Zero
    /\ clients = Zero
    /\ growth_rate = Zero
    /\ retention = Zero
    /\ comp_clients = <<>>
    /\ history = <<>>
    /\ effective_growth = Zero
    /\ score = <<>>

SpecScore == ScoreInit /\ [][Score]_vars

\* ------------------------------------------------------------------------
\* C6: for N >= 1 trial results and a tally the engine can produce, each of
\* the four sub-scores lies in 0..5 and total_score in 0..20.
\* ------------------------------------------------------------------------
C6_ScoresInRange ==
    pc = "scored" =>
        /\ score.robust_score \in 0..5
        /\ score.resilience_score \in 0..5
        /\ score.stability_score \in 0..5
        /\ score.vulnerability_score \in 0..5
        /\ score.total_score \in 0..20

\* a scoring where more than one event per trial and a cash spread above
\* 50000 put the vulnerability and the stability score on their floor
C6_Witness ==
    /\ pc = "scored"
    /\ score.total_events > params.num_simulations
    /\ score.vulnerability_score = 0
    /\ score.stability_score = 0
    /\ score.robust_score > 0

====
